---- MODULE Spec2Model ----
(***************************************************************************)
(* A model of the container library of jdbren/containers:                  *)
(*   Vector<T>        (src/Vector.h)      a resizable array,               *)
(*   ForwardList<T>   (src/ForwardList.h) a singly linked list,            *)
(*   UnorderedMap     (src/HashMap.h)     a chained hash table built from  *)
(*                                        a Vector of ForwardLists.        *)
(*                                                                         *)
(* Representation.                                                         *)
(*   Pair         [first |-> key, second |-> value]                        *)
(*   ForwardList  [head |-> the chain, as the sequence of the nodes' data  *)
(*                 from the head node on, _size |-> the _size field]       *)
(*   Vector       [_data |-> the buffer, one entry per allocated slot     *)
(*                 (its length is the allocation; <<>> is nullptr),        *)
(*                 currentSize, currentCapacity]                           *)
(*   UnorderedMap [A |-> Vector of ForwardList of Pair, currentSize,       *)
(*                 _max_load_factor |-> <<num, den>>, the float num/den]   *)
(*   map position [bucket |-> offset of the bucket pointer from A.begin(), *)
(*                 pos |-> 0 for a null node pointer, else the index of    *)
(*                 the node in the chain of that bucket]                   *)
(* The key and value types are int, Hash is std::hash<int>.                *)
(*                                                                         *)
(* A call that reads through a null pointer or takes a remainder modulo 0  *)
(* has undefined behaviour: the variable fault records which, the run ends *)
(* there and nothing is said about what a build does afterwards.  A read   *)
(* of the slot past the bucket array yields an arbitrary value.            *)
(*                                                                         *)
(* Where the identity of an object matters (which list owns a node, which  *)
(* map owns a bucket array), the objects are on a heap:                    *)
(*   heap         [nodes |-> node pointer -> [data, next], count |-> the   *)
(*                 nodes made so far, bufs |-> array number -> the lists   *)
(*                 of the array as [head |-> node pointer, _size],         *)
(*                 bcount |-> the arrays made so far]                      *)
(* A pointer whose number is not in the heap points to a deleted object.   *)
(*                                                                         *)
(* Specifications: Spec, SpecAll and SpecClear call one UnorderedMap,      *)
(* SpecVec one Vector<int>, SpecList two ForwardList<int> on the heap,     *)
(* SpecCopy a map on the heap and its copy, SpecPrime nextPrime on its     *)
(* own.  Each leaves the variables of the others as they start.            *)
(***************************************************************************)
EXTENDS Naturals, Sequences, FiniteSets, TLC

\* ------------------------------------------------------------- bounds
\* keys are 0..MaxKey
MaxKey == 2
\* values given to insert are 1..MaxVal
MaxVal == 1
\* arguments of the constructor, rehash and reserve are 0..MaxN
MaxN == 3

\* insert and operator[] are called with a new key only while size() is below
\* MaxSize (size() is never reset by clear, so it has no bound of its own)
MaxSize == 3

\* a Vector<int> is given elements 1..MaxElem
MaxElem == 2
\* push_back, insert and resize are called while size() stays within MaxLen
MaxLen == 3

\* at most MaxAlloc list nodes are allocated in a run
MaxAlloc == 3

\* the largest argument given to nextPrime on its own
MaxNum == 120

Keys == 0 .. MaxKey
Vals == 1 .. MaxVal
Sizes == 0 .. MaxN

\* T() for T = int: the value operator[] gives a pair it creates
DefaultValue == 0

\* the null node pointer of a list position
NULL == 0

\* what a slot of new int[n] holds before it is assigned: no element has it
Indeterminate == 0

Elems == 1 .. MaxElem

\* the values max_load_factor(ml) is called with, each exact as a float:
\* 0.5 and 1.0 (the default)
LoadFactors == {<<1, 2>>, <<1, 1>>}

\* ------------------------------------------------------------- Pair

Pair(k, v) == [first |-> k, second |-> v]

\* ------------------------------------------------------------- ForwardList

\* ForwardList(): head(NULL), _size(0)
EmptyList == [head |-> <<>>, _size |-> 0]

\* empty(): head == NULL
FL_empty(l) == l.head = <<>>

\* push_front: a new node in front of head, _size++
FL_push_front(l, x) == [head |-> <<x>> \o l.head, _size |-> l._size + 1]

\* clear(): deletes every node, head = NULL, _size = 0 (nothing when empty)
FL_clear(l) == IF FL_empty(l) THEN l ELSE EmptyList

\* the loop of the copy operations: push_front of every element of rhs, from
\* its head on, so the copy holds them in the reverse order
RECURSIVE FL_push_all(_, _)
FL_push_all(l, chain) ==
    IF chain = <<>> THEN l
    ELSE FL_push_all(FL_push_front(l, Head(chain)), Tail(chain))

\* operator=(const ForwardList&) between two distinct lists
FL_copy_assign(l, rhs) ==
    FL_push_all(IF ~FL_empty(l) THEN FL_clear(l) ELSE l, rhs.head)

\* ------------------------------------------------------------- Vector

\* a moved-from or default constructed Vector: nullptr, 0, 0
NullVector == [_data |-> <<>>, currentSize |-> 0, currentCapacity |-> 0]

\* new T[n] for T = ForwardList: n default constructed lists
NewArray(n) == [i \in 1 .. n |-> EmptyList]

\* Vector(size, info): size slots, each copy-assigned from info
Vector_ctor(size, info) ==
    [_data |-> [i \in 1 .. size |-> FL_copy_assign(EmptyList, info)],
     currentSize |-> size,
     currentCapacity |-> size]

\* size()
Vec_size(v) == v.currentSize

\* operator[](ndx), ndx counted from 0 as in the source
Vec_at(v, ndx) == v._data[ndx + 1]

\* clear(): currentSize = 0, the buffer and its elements stay
Vec_clear(v) == [v EXCEPT !.currentSize = 0]

\* operator=(const Vector&) and Vector(const Vector&) from a distinct Vector:
\* a fresh buffer of other.size() lists, each copy-assigned
Vec_copy(other) ==
    [_data |-> [i \in 1 .. other.currentSize |->
                    FL_copy_assign(EmptyList, other._data[i])],
     currentSize |-> other.currentSize,
     currentCapacity |-> other.currentSize]

\* operator=(const Vector&) with other aliasing *this: the old buffer is
\* deleted, a fresh one of size() default lists allocated, and each
\* _data[i] = other._data[i] is a self-assignment of the fresh list
Vec_copy_self(v) ==
    [_data |-> NewArray(v.currentSize),
     currentSize |-> v.currentSize,
     currentCapacity |-> v.currentSize]

\* ------------------------------------------------------------- nodes
\* ForwardList<int> on a heap of nodes. A node pointer is the number of the
\* allocation that made the node (NULL for the null pointer); no number is
\* given twice, so a pointer to a deleted node is one that is not in
\* heap.nodes. A list is [head |-> node pointer, _size |-> the _size field].
\* Reading through a pointer to a deleted node, or deleting it again, is
\* undefined.

NoNodes == [n \in {} |-> NULL]

\* nothing allocated; bufs are the arrays made by new ForwardList[n] and not
\* deleted, numbered like the nodes, each the sequence of its lists
EmptyHeap == [nodes |-> NoNodes, count |-> 0, bufs |-> NoNodes, bcount |-> 0]

\* whether p points to a node that has not been deleted
Live(h, p) == p \in DOMAIN h.nodes

\* new Node<T>(d, p)
NewNode(h, d, p) ==
    [h EXCEPT !.nodes = (h.count + 1 :> [data |-> d, next |-> p]) @@ @,
              !.count = @ + 1]

\* delete p, p a live node
DeleteNode(h, p) ==
    [h EXCEPT !.nodes = [n \in DOMAIN @ \ {p} |-> @[n]]]

\* ForwardList()
NewList == [head |-> NULL, _size |-> 0]

\* push_front(x)
push_front(h, l, x) ==
    [fault |-> "none",
     heap |-> NewNode(h, x, l.head),
     list |-> [l EXCEPT !.head = h.count + 1, !._size = @ + 1]]

\* a pop_front that leaves _size as it is
pop_front_KeepSize(h, l) ==
    IF l.head = NULL THEN [fault |-> "null_deref", heap |-> h, list |-> l]
    ELSE IF ~Live(h, l.head)
    THEN [fault |-> "use_after_free", heap |-> h, list |-> l]
    ELSE [fault |-> "none",
          heap |-> DeleteNode(h, l.head),
          list |-> [l EXCEPT !.head = h.nodes[l.head].next]]

\* pop_front()
pop_front(h, l) ==
    IF l.head = NULL THEN [fault |-> "null_deref", heap |-> h, list |-> l]
    ELSE IF ~Live(h, l.head)
    THEN [fault |-> "use_after_free", heap |-> h, list |-> l]
    ELSE [fault |-> "none",
          heap |-> DeleteNode(h, l.head),
          list |-> [l EXCEPT !.head = h.nodes[l.head].next,
                             !._size = @ - 1]]

\* clear(), the while loop: ptr = head->next; delete head; head = ptr
RECURSIVE ClearLoop(_, _)
ClearLoop(h, head) ==
    IF head = NULL THEN [fault |-> "none", heap |-> h]
    ELSE IF ~Live(h, head) THEN [fault |-> "use_after_free", heap |-> h]
    ELSE ClearLoop(DeleteNode(h, head), h.nodes[head].next)

\* clear()
List_clear(h, l) ==
    IF l.head = NULL THEN [fault |-> "none", heap |-> h, list |-> l]
    ELSE LET r == ClearLoop(h, l.head)
         IN [fault |-> r.fault,
             heap |-> r.heap,
             list |-> [l EXCEPT !.head = NULL, !._size = 0]]

\* ~ForwardList(): clear(); delete head, head being null by then
List_destroy(h, l) == List_clear(h, l)

\* erase_after(itr), itr a live node with a successor
erase_after(h, l, itr) ==
    LET nxt == h.nodes[itr].next
    IN IF ~Live(h, nxt)
       THEN [fault |-> "use_after_free", heap |-> h, list |-> l]
       ELSE [fault |-> "none",
             heap |-> [DeleteNode(h, nxt) EXCEPT
                          !.nodes[itr].next = h.nodes[nxt].next],
             list |-> [l EXCEPT !._size = @ - 1]]

\* remove(val), the while loop from position itr on: only the data of the
\* node after itr is compared
RECURSIVE RemoveLoop(_, _, _, _)
RemoveLoop(h, l, itr, val) ==
    IF ~Live(h, itr)
    THEN [fault |-> "use_after_free", heap |-> h, list |-> l]
    ELSE IF h.nodes[itr].next = NULL
    THEN [fault |-> "none", heap |-> h, list |-> l]
    ELSE IF ~Live(h, h.nodes[itr].next)
    THEN [fault |-> "use_after_free", heap |-> h, list |-> l]
    ELSE IF h.nodes[h.nodes[itr].next].data = val
    THEN LET r == erase_after(h, l, itr)
         IN RemoveLoop(r.heap, r.list, itr, val)
    ELSE RemoveLoop(h, l, h.nodes[itr].next, val)

\* remove(val): itr = cbegin(), and itr.current->next is read at once, through
\* the null head when the list is empty
remove(h, l, val) ==
    IF l.head = NULL THEN [fault |-> "null_deref", heap |-> h, list |-> l]
    ELSE RemoveLoop(h, l, l.head, val)

\* the loop of the copy operations: push_front(*itr); ++itr until cend()
RECURSIVE CopyLoop(_, _, _)
CopyLoop(h, l, itr) ==
    IF itr = NULL THEN [fault |-> "none", heap |-> h, list |-> l]
    ELSE IF ~Live(h, itr)
    THEN [fault |-> "use_after_free", heap |-> h, list |-> l]
    ELSE LET r == push_front(h, l, h.nodes[itr].data)
         IN CopyLoop(r.heap, r.list, h.nodes[itr].next)

\* ForwardList(n, val), the loop: push_front(val), n times
RECURSIVE FillLoop(_, _, _, _)
FillLoop(h, l, n, val) ==
    IF n = 0 THEN [fault |-> "none", heap |-> h, list |-> l]
    ELSE LET r == push_front(h, l, val)
         IN FillLoop(r.heap, r.list, n - 1, val)

\* ForwardList(n, val)
List_fill_construct(h, n, val) == FillLoop(h, NewList, n, val)

\* ForwardList(const ForwardList& rhs)
List_copy_construct(h, rhs) == CopyLoop(h, NewList, rhs.head)

\* operator=(const ForwardList& rhs); same: this == &rhs
List_copy_assign(h, l, rhs, same) ==
    IF same THEN [fault |-> "none", heap |-> h, list |-> l]
    ELSE IF l.head # NULL
    THEN LET c == List_clear(h, l)
         IN IF c.fault # "none" THEN c
            ELSE CopyLoop(c.heap, c.list, rhs.head)
    ELSE CopyLoop(h, l, rhs.head)

\* ForwardList(ForwardList&&) = default and operator=(ForwardList&&) = default:
\* head and _size are copied member by member, rhs keeps its own
List_move(rhs) == [head |-> rhs.head, _size |-> rhs._size]

\* ------------------------------------------------------------- Vector<int>
\* The operations below are those of a Vector<int>; a position (iterator) is
\* given as its offset from begin(). A Vector<int> has the field null beside
\* the three of a Vector: whether _data is nullptr, which a buffer of no slot
\* (new int[0]) is not.

\* Vector(): nullptr, 0, 0;  Vector(size, info): size slots holding info
Vector_int(size, info) ==
    [_data |-> [i \in 1 .. size |-> info],
     currentSize |-> size,
     currentCapacity |-> size,
     null |-> size = 0]

\* the Vector<int> a move leaves behind: nullptr, 0, 0
Moved_int == [_data |-> <<>>, currentSize |-> 0, currentCapacity |-> 0,
              null |-> TRUE]

\* v = other, operator=(const Vector&), other a distinct Vector: the buffer
\* of v is deleted, a buffer of other.size() slots holds the elements of other
Vec_copy_assign(v, other) ==
    [_data |-> [i \in 1 .. other.currentSize |-> other._data[i]],
     currentSize |-> other.currentSize,
     currentCapacity |-> other.currentSize,
     null |-> other.currentSize = 0]

\* v = v, operator=(const Vector&) has no self test: the buffer is deleted,
\* size() is read from v, and the new buffer is copied from itself, slot by
\* slot, before anything was written to it
Vec_copy_assign_self(v) ==
    [_data |-> [i \in 1 .. v.currentSize |-> Indeterminate],
     currentSize |-> v.currentSize,
     currentCapacity |-> v.currentSize,
     null |-> v.currentSize = 0]

\* v = std::move(other), operator=(Vector&&), other a distinct Vector: the
\* buffer of v is deleted and v takes the three fields of other
Vec_move_assign(v, other) == other

\* v = std::move(v): v takes its own fields, then other, which is v, is set
\* to nullptr, 0, 0
Vec_move_assign_self(v) == Moved_int

\* empty()
Vec_empty(v) == v.currentSize = 0

\* capacity()
Vec_capacity(v) == v.currentCapacity

\* increaseCapacity(cap): a buffer of cap slots, the first size() copied
increaseCapacity(v, cap) ==
    LET c == IF cap = 0 THEN cap + 1 ELSE cap
    IN IF c > v.currentCapacity
       THEN [_data |-> [i \in 1 .. c |-> IF i <= v.currentSize
                                         THEN v._data[i]
                                         ELSE Indeterminate],
             currentSize |-> v.currentSize,
             currentCapacity |-> c,
             null |-> FALSE]
       ELSE v

\* reserve(cap)
Vec_reserve(v, cap) ==
    IF cap > v.currentCapacity THEN increaseCapacity(v, cap) ELSE v

\* shrink_to_fit(): a buffer of size() slots; new T[0] is a buffer of no slot
shrink_to_fit(v) ==
    IF v.currentSize < v.currentCapacity
    THEN [_data |-> [i \in 1 .. v.currentSize |-> v._data[i]],
          currentSize |-> v.currentSize,
          currentCapacity |-> v.currentSize,
          null |-> FALSE]
    ELSE v

\* at(index): the test is index > currentSize - 1 on size_t, where
\* currentSize - 1 is SIZE_MAX when currentSize is 0 and no index exceeds it;
\* _data[index] is then read whatever the buffer is
at(v, index) ==
    IF v.currentSize # 0 /\ index > v.currentSize - 1
    THEN [fault |-> "none", threw |-> TRUE]
    ELSE IF index < Len(v._data)
    THEN [fault |-> "none", threw |-> FALSE, val |-> v._data[index + 1]]
    ELSE [fault |-> "out_of_bounds"]

\* a push_back that grows the buffer by one slot
push_back_GrowByOne(v, value) ==
    LET v1 == IF v.currentSize >= v.currentCapacity
              THEN increaseCapacity(v, v.currentCapacity + 1)
              ELSE v
    IN [v1 EXCEPT !._data[v.currentSize + 1] = value,
                  !.currentSize = @ + 1]

\* push_back(value)
push_back(v, value) ==
    LET v1 == IF v.currentSize >= v.currentCapacity
              THEN increaseCapacity(v, 2 * v.currentCapacity)
              ELSE v
    IN [v1 EXCEPT !._data[v.currentSize + 1] = value,
                  !.currentSize = @ + 1]

\* a pop_back that leaves the size as it is
pop_back_KeepSize(v) == v

\* pop_back()
pop_back(v) ==
    IF ~Vec_empty(v) THEN [v EXCEPT !.currentSize = @ - 1] ELSE v

\* a resize that sets the size and leaves the buffer as it is
resize_NoGrow(v, cnt, value) ==
    [v EXCEPT !.currentSize = cnt]

\* resize(cnt, value)
resize(v, cnt, value) ==
    IF cnt > v.currentSize
    THEN LET v1 == IF cnt > v.currentCapacity
                   THEN increaseCapacity(v, 2 * cnt)
                   ELSE v
         IN [v1 EXCEPT !._data = [i \in DOMAIN v1._data |->
                                     IF v.currentSize < i /\ i <= cnt
                                     THEN value ELSE v1._data[i]],
                       !.currentSize = cnt]
    ELSE IF cnt < v.currentSize
    THEN [v EXCEPT !.currentSize = cnt]
    ELSE v

\* insert(pos, value), pos = begin() + i with 0 <= i <= size(). With
\* size() == capacity() increaseCapacity replaces the buffer first, and pos
\* still points into the deleted one (or is null for a Vector that holds
\* nullptr): the shift loop walks down from the new buffer until it meets
\* pos - 1. That is undefined. On its way the loop moves every element, and
\* the word in front of the new buffer, up by one slot. A build then either
\* faults further down, or, when the deleted buffer lies below the new one
\* (overrun; not for nullptr), reaches pos - 1, writes value into the deleted
\* buffer, increments the size and returns.
\* Otherwise the elements from i on move up one slot and value is stored at i.
Vec_insert(v, i, value, overrun) ==
    IF v.currentSize = v.currentCapacity
    THEN LET v1 == increaseCapacity(v, 2 * v.currentCapacity)
             shifted == [v1 EXCEPT !._data = [j \in DOMAIN v1._data |->
                                                IF j = 1 THEN Indeterminate
                                                ELSE IF j <= v.currentSize + 1
                                                THEN v1._data[j - 1]
                                                ELSE v1._data[j]]]
         IN IF overrun /\ ~v.null
            THEN [fault |-> "dangling_pointer",
                  vec |-> [shifted EXCEPT !.currentSize = @ + 1]]
            ELSE [fault |-> "dangling_pointer", vec |-> shifted]
    ELSE [fault |-> "none",
          vec |-> [v EXCEPT !._data = [j \in DOMAIN v._data |->
                                          IF j <= i THEN v._data[j]
                                          ELSE IF j = i + 1 THEN value
                                          ELSE IF j <= v.currentSize + 1
                                          THEN v._data[j - 1]
                                          ELSE v._data[j]],
                            !.currentSize = @ + 1],
          pos |-> i]

\* an erase that drops the last element whatever the position
Vec_erase_NoShift(v, i) ==
    [vec |-> [v EXCEPT !.currentSize = @ - 1],
     pos |-> IF i # v.currentSize - 1 THEN i ELSE v.currentSize - 1]

\* erase(pos), pos = begin() + i with 0 <= i < size(): the elements after i
\* move down one slot; the position returned is pos, or end() of the shorter
\* array when pos was &back()
Vec_erase(v, i) ==
    [vec |-> [v EXCEPT !._data = [j \in DOMAIN v._data |->
                                     IF i < j /\ j < v.currentSize
                                     THEN v._data[j + 1]
                                     ELSE v._data[j]],
                       !.currentSize = @ - 1],
     pos |-> IF i # v.currentSize - 1 THEN i ELSE v.currentSize - 1]

\* ------------------------------------------------------------- UnorderedMap

\* std::hash<int>
Hash(k) == k

\* a nextPrime that returns its argument when it is above 1
nextPrime_Same(num) == IF num <= 1 THEN 2 ELSE num

\* nextPrime: the while loop, one trial division pass per candidate
RECURSIVE nextPrimeLoop(_)
nextPrimeLoop(num) ==
    IF \E i \in 2 .. (num \div 2) : num % i = 0
    THEN nextPrimeLoop(num + 1)
    ELSE num

nextPrime(num) == IF num <= 1 THEN 2 ELSE nextPrimeLoop(num)

\* bucket_count(): A.size()
bucket_count(m) == Vec_size(m.A)

\* UnorderedMap(n)
UnorderedMap(n) ==
    [A |-> Vector_ctor(nextPrime(n), EmptyList),
     currentSize |-> 0,
     _max_load_factor |-> <<1, 1>>]

\* load_factor() >= max_load_factor(), on floats: x / 0 is +inf for x > 0
\* and 0 / 0 is NaN, which compares false
LoadFactorGE(m) ==
    IF bucket_count(m) = 0 THEN m.currentSize > 0
    ELSE m.currentSize * m._max_load_factor[2]
            >= m._max_load_factor[1] * bucket_count(m)

\* load_factor() <= max_load_factor(), on floats
LoadFactorLE(m) ==
    IF bucket_count(m) = 0 THEN FALSE
    ELSE m.currentSize * m._max_load_factor[2]
            <= m._max_load_factor[1] * bucket_count(m)

\* rehash, lines 376-378: the requested size after the coercions;
\* n < currentSize / mlf is n * num < currentSize * den, and
\* (size_t)(currentSize / mlf * 2) is the floor of 2 * currentSize * den / num
RECURSIVE RehashSize(_, _)
RehashSize(m, n) ==
    IF n * m._max_load_factor[1] < m.currentSize * m._max_load_factor[2]
    THEN RehashSize(m, (2 * m.currentSize * m._max_load_factor[2])
                            \div m._max_load_factor[1])
    ELSE n

\* a rehash that moves only the first pair of each chain
RECURSIVE LivePairs_HeadsOnly(_, _)
LivePairs_HeadsOnly(v, i) ==
    IF i >= Vec_size(v) THEN <<>>
    ELSE (IF Vec_at(v, i).head = <<>> THEN <<>>
          ELSE <<Head(Vec_at(v, i).head)>>) \o LivePairs_HeadsOnly(v, i + 1)

\* rehash, lines 381-388: the pairs of the live buckets in the order the two
\* loops visit them, bucket 0 first, each chain from its head
RECURSIVE LivePairs(_, _)
LivePairs(v, i) ==
    IF i >= Vec_size(v) THEN <<>>
    ELSE Vec_at(v, i).head \o LivePairs(v, i + 1)

\* rehash, lines 384-385: temp[h(key) % temp.size()].push_front(pair), for the
\* pairs in visiting order
RECURSIVE Relocate(_, _)
Relocate(temp, pairs) ==
    IF pairs = <<>> THEN temp
    ELSE LET p == Head(pairs)
             index == Hash(p.first) % Vec_size(temp)
         IN Relocate([temp EXCEPT !._data[index + 1] =
                            FL_push_front(temp._data[index + 1], p)],
                     Tail(pairs))

\* rehash(n); A = std::move(temp) leaves A with temp's buffer
rehash(m, n) ==
    LET n1 == IF n = 0 THEN 1 ELSE n
        n2 == RehashSize(m, n1)
        temp == Vector_ctor(nextPrime(n2), EmptyList)
    IN [m EXCEPT !.A = Relocate(temp, LivePairs(m.A, 0))]

\* ------------------------------------------------------------- positions

\* make_iterator(ndx, itr): iterator(A.begin() + ndx, itr, *this)
make_iterator(ndx, itr) == [bucket |-> ndx, pos |-> itr]

\* end() and cend(): make_iterator(bucket_count()) with the null list position
end(m) == make_iterator(bucket_count(m), NULL)

\* ForwardList::begin(): iterator(head), null for an empty chain
FL_begin(l) == IF l.head = <<>> THEN NULL ELSE 1

\* List_Iterator::operator++ on a non-null position: current = current->next
FL_next(l, p) == IF p < Len(l.head) THEN p + 1 ELSE NULL

\* the scanning loops of insert, operator[] and find: from node p of the
\* chain on, the first node whose key is k, NULL when the chain is exhausted
RECURSIVE ScanFrom(_, _, _)
ScanFrom(l, p, k) ==
    IF p = NULL THEN NULL
    ELSE IF l.head[p].first = k THEN p
    ELSE ScanFrom(l, FL_next(l, p), k)

\* find(k) const: the while loop tests the position before it reads the key;
\* called with bucket_count() > 0
find_const(m, k) ==
    LET index == Hash(k) % bucket_count(m)
        itr == ScanFrom(Vec_at(m.A, index), FL_begin(Vec_at(m.A, index)), k)
    IN IF itr # NULL THEN make_iterator(index, itr) ELSE end(m)

\* count(k): find(k) != cend(), through the const find
count(m, k) == IF find_const(m, k) # end(m) THEN 1 ELSE 0

\* find(k), not const: the do-while reads itr->first before any test, so on
\* an empty bucket it reads through the null position; an exhausted chain
\* leaves make_iterator(index, null)
find(m, k) ==
    IF bucket_count(m) = 0
    THEN [fault |-> "div_by_zero"]
    ELSE LET index == Hash(k) % bucket_count(m)
             l == Vec_at(m.A, index)
         IN IF FL_begin(l) = NULL
            THEN [fault |-> "null_deref"]
            ELSE [fault |-> "none",
                  pos |-> make_iterator(index, ScanFrom(l, FL_begin(l), k))]

\* insert and operator[], their first two lines
GrowIfLoaded(m) ==
    IF LoadFactorGE(m) THEN rehash(m, m.currentSize * 2) ELSE m

\* A[index].push_front(p); currentSize++
PushPair(m, index, p) ==
    [m EXCEPT !.A._data[index + 1] = FL_push_front(@, p),
              !.currentSize = @ + 1]

\* an insert that pushes the pair without looking for its key
insert_NoDuplicateCheck(m, k, v) ==
    LET m1 == GrowIfLoaded(m)
    IN IF bucket_count(m1) = 0
       THEN [fault |-> "div_by_zero", map |-> m]
       ELSE LET index == Hash(k) % bucket_count(m1)
                itr == FL_begin(Vec_at(m1.A, index))
            IN [fault |-> "none",
                map |-> PushPair(m1, index, Pair(k, v)),
                first |-> make_iterator(index,
                              IF itr = NULL THEN NULL ELSE itr + 1),
                second |-> TRUE]

\* an insert that assigns the value when the key is stored
insert_Overwrite(m, k, v) ==
    LET m1 == GrowIfLoaded(m)
    IN IF bucket_count(m1) = 0
       THEN [fault |-> "div_by_zero", map |-> m]
       ELSE LET index == Hash(k) % bucket_count(m1)
                l == Vec_at(m1.A, index)
                itr == FL_begin(l)
            IN IF count(m1, k) > 0
               THEN [fault |-> "none",
                     map |-> [m1 EXCEPT !.A._data[index + 1]
                                           .head[ScanFrom(l, itr, k)]
                                           .second = v],
                     first |-> make_iterator(index, ScanFrom(l, itr, k)),
                     second |-> FALSE]
               ELSE [fault |-> "none",
                     map |-> PushPair(m1, index, Pair(k, v)),
                     first |-> make_iterator(index,
                                   IF itr = NULL THEN NULL ELSE itr + 1),
                     second |-> TRUE]

\* insert(pair): itr is taken from A[index].begin() before the push_front,
\* so after a push it is the node that was the head (the second node now),
\* or null when the bucket was empty
insert(m, k, v) ==
    LET m1 == GrowIfLoaded(m)
    IN IF bucket_count(m1) = 0
       THEN [fault |-> "div_by_zero", map |-> m]
       ELSE LET index == Hash(k) % bucket_count(m1)
                l == Vec_at(m1.A, index)
                itr == FL_begin(l)
            IN IF count(m1, k) > 0
               THEN [fault |-> "none", map |-> m1,
                     first |-> make_iterator(index, ScanFrom(l, itr, k)),
                     second |-> FALSE]
               ELSE [fault |-> "none",
                     map |-> PushPair(m1, index, Pair(k, v)),
                     first |-> make_iterator(index,
                                   IF itr = NULL THEN NULL ELSE itr + 1),
                     second |-> TRUE]

\* operator[](k): the reference returned is given as the position of the
\* pair whose second it is
subscript(m, k) ==
    LET m1 == GrowIfLoaded(m)
    IN IF bucket_count(m1) = 0
       THEN [fault |-> "div_by_zero", map |-> m]
       ELSE LET ndx == Hash(k) % bucket_count(m1)
                l == Vec_at(m1.A, ndx)
                itr == ScanFrom(l, FL_begin(l), k)
            IN IF FL_empty(l) \/ itr = NULL
               THEN [fault |-> "none",
                     map |-> PushPair(m1, ndx, Pair(k, DefaultValue)),
                     ref |-> make_iterator(ndx, 1)]
               ELSE [fault |-> "none", map |-> m1,
                     ref |-> make_iterator(ndx, itr)]

\* reserve(n): rehash(std::ceil(n / max_load_factor()))
reserve(m, n) ==
    rehash(m, (n * m._max_load_factor[2] + m._max_load_factor[1] - 1)
                  \div m._max_load_factor[1])

\* max_load_factor(ml)
set_max_load_factor(m, ml) == [m EXCEPT !._max_load_factor = ml]

\* begin(): make_iterator(0, A[0].begin()); A[0] is read whatever size() is,
\* through a null buffer when the Vector holds none
begin(m) ==
    IF m.A._data = <<>>
    THEN [fault |-> "null_deref"]
    ELSE [fault |-> "none", pos |-> make_iterator(0, FL_begin(Vec_at(m.A, 0)))]

\* operator*(): the pair a position refers to
Deref(m, it) == Vec_at(m.A, it.bucket).head[it.pos]

\* map_iterator::operator++, the while loop and the test after it. The body
\* reads bucket->begin() after bucket++, also when bucket has become A.end():
\* a slot of the buffer past size() if there is one, else memory past the
\* buffer, whose content g is arbitrary (oob records that read)
RECURSIVE SkipEmpty(_, _, _, _, _)
SkipEmpty(m, b, p, g, oob) ==
    IF p = NULL /\ b # Vec_size(m.A)
    THEN IF b + 1 < Len(m.A._data)
         THEN SkipEmpty(m, b + 1, FL_begin(Vec_at(m.A, b + 1)), g, oob)
         ELSE SkipEmpty(m, b + 1, g, g, TRUE)
    ELSE [pos |-> make_iterator(b, IF b = Vec_size(m.A) THEN NULL ELSE p),
          oob |-> oob]

\* map_iterator::operator++ on a position with a non-null list position
Increment(m, it, g) ==
    SkipEmpty(m, it.bucket, FL_next(Vec_at(m.A, it.bucket), it.pos), g, FALSE)

\* empty(): currentSize == 0
empty(m) == m.currentSize = 0

\* clear(): A.clear(), which sets the Vector's size to 0; currentSize stays
clear(m) == [m EXCEPT !.A = Vec_clear(@)]

\* operator=(const UnorderedMap&) from a distinct map
copy_assign(m, other) ==
    LET m1 == IF ~empty(m) THEN clear(m) ELSE m
    IN [m1 EXCEPT !.A = Vec_copy(other.A),
                  !.currentSize = other.currentSize,
                  !._max_load_factor = other._max_load_factor]

\* operator=(const UnorderedMap&) with other aliasing *this
copy_assign_self(m) ==
    LET m1 == IF ~empty(m) THEN clear(m) ELSE m
    IN [m1 EXCEPT !.A = Vec_copy_self(@)]

\* operator=(UnorderedMap&&) from a distinct map: Vector's move assignment
\* takes other's buffer, size and capacity
move_assign(m, other) ==
    LET m1 == IF ~empty(m) THEN clear(m) ELSE m
    IN [m1 EXCEPT !.A = other.A,
                  !.currentSize = other.currentSize,
                  !._max_load_factor = other._max_load_factor]

\* what a move leaves in its source: Vector's move operations null the
\* source's buffer, size and capacity; currentSize is copied, not reset
moved_from(m) == [m EXCEPT !.A = NullVector]

\* UnorderedMap(UnorderedMap&&) = default: the map constructed from m
move_construct(m) ==
    [A |-> m.A, currentSize |-> m.currentSize,
     _max_load_factor |-> m._max_load_factor]

\* a second map, the source of an assignment: UnorderedMap other(n), then
\* other.insert(pair(k, v)) for the keys k = 0 .. j - 1 in order
RECURSIVE InsertUpTo(_, _, _)
InsertUpTo(m, j, v) ==
    IF j = 0 THEN m
    ELSE insert(InsertUpTo(m, j - 1, v), j - 1, v).map

SourceMap(j, v) == InsertUpTo(UnorderedMap(j), j, v)

\* ------------------------------------------------------------- content

\* the pairs the map holds: those of the chains of buckets b .. bucket_count()-1
RECURSIVE ChainsFrom(_, _)
ChainsFrom(m, b) ==
    IF b >= m.A.currentSize THEN <<>>
    ELSE m.A._data[b + 1].head \o ChainsFrom(m, b + 1)

Stored(m) == ChainsFrom(m, 0)

\* whether some chain of the map holds a pair with key k
HasKey(m, k) == \E i \in 1 .. Len(Stored(m)) : Stored(m)[i].first = k

\* the number of nodes, over all chains, whose pair has key k
Occurrences(m, k) ==
    Cardinality({i \in 1 .. Len(Stored(m)) : Stored(m)[i].first = k})

\* the value stored with key k (k is stored)
ValueOf(m, k) ==
    LET i == CHOOSE i \in 1 .. Len(Stored(m)) : Stored(m)[i].first = k
    IN Stored(m)[i].second

\* the pairs held, as a set
PairSet(m) == {Stored(m)[i] : i \in 1 .. Len(Stored(m))}

\* the chain of bucket hash(k) mod bucket_count() (bucket_count() > 0)
HomeChain(m, k) == Vec_at(m.A, Hash(k) % bucket_count(m)).head

IsPrime(n) == n >= 2 /\ \A d \in 2 .. n - 1 : n % d # 0

\* the elements of the chain from node pointer p on, as far as live nodes go
\* (at most fuel of them)
RECURSIVE DataFrom(_, _, _)
DataFrom(h, p, fuel) ==
    IF p = NULL \/ ~Live(h, p) \/ fuel = 0 THEN <<>>
    ELSE <<h.nodes[p].data>> \o DataFrom(h, h.nodes[p].next, fuel - 1)

\* the elements of list l, from its head
Contents(h, l) == DataFrom(h, l.head, h.count)

\* the node pointers met from p on, null excluded: each live node of the
\* chain, and the pointer to a deleted node the chain may end in
RECURSIVE PointersFrom(_, _, _)
PointersFrom(h, p, fuel) ==
    IF p = NULL \/ fuel = 0 THEN {}
    ELSE IF ~Live(h, p) THEN {p}
    ELSE {p} \cup PointersFrom(h, h.nodes[p].next, fuel - 1)

PointersOf(h, l) == PointersFrom(h, l.head, h.count)

\* ------------------------------------------------------------- maps on the heap
\* An UnorderedMap<int, int> whose bucket array and nodes are heap objects:
\* A._data is the number of the array (NULL for nullptr), each list of the
\* array is [head |-> node pointer, _size]. What a call computes from the
\* content of a map is taken from the operators above, applied to ViewMap;
\* the operators here add which arrays and nodes a call makes and deletes.

\* the list, the Vector and the map that the heap objects hold, by value
ViewList(h, l) == [head |-> DataFrom(h, l.head, h.count), _size |-> l._size]

ViewVector(h, v) ==
    [_data |-> IF v._data \in DOMAIN h.bufs
               THEN [i \in 1 .. Len(h.bufs[v._data]) |->
                        ViewList(h, h.bufs[v._data][i])]
               ELSE <<>>,
     currentSize |-> v.currentSize,
     currentCapacity |-> v.currentCapacity]

ViewMap(h, m) ==
    [A |-> ViewVector(h, m.A),
     currentSize |-> m.currentSize,
     _max_load_factor |-> m._max_load_factor]

\* new ForwardList[n]: n default constructed lists
NewBuffer(h, n) ==
    [h EXCEPT !.bufs = (h.bcount + 1 :> [i \in 1 .. n |-> NewList]) @@ @,
              !.bcount = @ + 1]

\* delete[] of array b, the destructors of its lists from slot i on, then
\* the array itself
RECURSIVE DeleteBuffer(_, _, _)
DeleteBuffer(h, b, i) ==
    IF b \notin DOMAIN h.bufs THEN [fault |-> "use_after_free", heap |-> h]
    ELSE IF i > Len(h.bufs[b])
    THEN [fault |-> "none",
          heap |-> [h EXCEPT !.bufs = [x \in DOMAIN @ \ {b} |-> @[x]]]]
    ELSE LET r == List_destroy(h, h.bufs[b][i])
         IN IF r.fault # "none" THEN [fault |-> r.fault, heap |-> h]
            ELSE DeleteBuffer(r.heap, b, i + 1)

\* Vector(size, info) with info an empty list: a new array when size > 0
Heap_Vector_ctor(h, size) ==
    [heap |-> IF size = 0 THEN h ELSE NewBuffer(h, size),
     vec |-> [_data |-> IF size = 0 THEN NULL ELSE h.bcount + 1,
              currentSize |-> size,
              currentCapacity |-> size]]

\* the loop of Vector's copy operations: _data[i] = other._data[i] for the
\* slots i .. n of the new array b, a ForwardList copy assignment each;
\* other._data is b itself when a Vector is assigned to itself
RECURSIVE CopySlots(_, _, _, _, _)
CopySlots(h, b, src, i, n) ==
    IF i > n THEN [fault |-> "none", heap |-> h]
    ELSE LET r == List_copy_assign(h, h.bufs[b][i], h.bufs[src][i], b = src)
         IN IF r.fault # "none" THEN [fault |-> r.fault, heap |-> h]
            ELSE CopySlots([r.heap EXCEPT !.bufs[b][i] = r.list],
                           b, src, i + 1, n)

\* Vector(const Vector& other): a new array of other.size() lists, each copied
Heap_Vector_copy(h, other) ==
    IF other.currentSize = 0
    THEN [fault |-> "none", heap |-> h,
          vec |-> [_data |-> NULL, currentSize |-> 0, currentCapacity |-> 0]]
    ELSE LET h1 == NewBuffer(h, other.currentSize)
             r == CopySlots(h1, h1.bcount, other._data, 1, other.currentSize)
         IN [fault |-> r.fault, heap |-> r.heap,
             vec |-> [_data |-> h1.bcount,
                      currentSize |-> other.currentSize,
                      currentCapacity |-> other.currentSize]]

\* v = other, Vector's operator=(const Vector&): the array v holds is deleted,
\* then other.size() and other._data are read; with same, other is v, whose
\* _data is by then the new array
Heap_Vector_assign(h, v, other, same) ==
    LET d == IF v.currentCapacity > 0 THEN DeleteBuffer(h, v._data, 1)
             ELSE [fault |-> "none", heap |-> h]
        size == IF same THEN v.currentSize ELSE other.currentSize
        h1 == NewBuffer(d.heap, size)
        r == CopySlots(h1, h1.bcount,
                       IF same THEN h1.bcount ELSE other._data, 1, size)
    IN IF d.fault # "none"
       THEN [fault |-> d.fault, heap |-> d.heap, vec |-> v]
       ELSE IF size = 0
       THEN [fault |-> "none", heap |-> d.heap,
             vec |-> [_data |-> NULL, currentSize |-> 0,
                      currentCapacity |-> 0]]
       ELSE [fault |-> r.fault, heap |-> r.heap,
             vec |-> [_data |-> h1.bcount,
                      currentSize |-> size,
                      currentCapacity |-> size]]

\* UnorderedMap(n)
Heap_UnorderedMap(h, n) ==
    LET c == Heap_Vector_ctor(h, nextPrime(n))
    IN [heap |-> c.heap,
        map |-> [A |-> c.vec,
                 currentSize |-> 0,
                 _max_load_factor |-> <<1, 1>>]]

\* rehash, lines 384-385: temp[h(key) % temp.size()].push_front(pair) into
\* array b, for the pairs in visiting order
RECURSIVE Heap_Relocate(_, _, _)
Heap_Relocate(h, b, pairs) ==
    IF pairs = <<>> THEN h
    ELSE LET index == Hash(Head(pairs).first) % Len(h.bufs[b])
             r == push_front(h, h.bufs[b][index + 1], Head(pairs))
         IN Heap_Relocate([r.heap EXCEPT !.bufs[b][index + 1] = r.list],
                          b, Tail(pairs))

\* rehash(n): temp is built, then A = std::move(temp) deletes the array A
\* held, with its lists and their nodes, and takes temp's
Heap_rehash(h, m, n) ==
    LET vm == ViewMap(h, m)
        n1 == IF n = 0 THEN 1 ELSE n
        temp == Heap_Vector_ctor(h, nextPrime(RehashSize(vm, n1)))
        h1 == Heap_Relocate(temp.heap, temp.vec._data, LivePairs(vm.A, 0))
        d == IF m.A.currentCapacity > 0 THEN DeleteBuffer(h1, m.A._data, 1)
             ELSE [fault |-> "none", heap |-> h1]
    IN [fault |-> d.fault, heap |-> d.heap, map |-> [m EXCEPT !.A = temp.vec]]

\* insert and operator[], their first two lines
Heap_GrowIfLoaded(h, m) ==
    IF LoadFactorGE(ViewMap(h, m))
    THEN Heap_rehash(h, m, m.currentSize * 2)
    ELSE [fault |-> "none", heap |-> h, map |-> m]

\* A[index].push_front(p); currentSize++
Heap_PushPair(h, m, index, p) ==
    LET r == push_front(h, h.bufs[m.A._data][index + 1], p)
    IN [fault |-> "none",
        heap |-> [r.heap EXCEPT !.bufs[m.A._data][index + 1] = r.list],
        map |-> [m EXCEPT !.currentSize = @ + 1]]

\* insert(pair(k, v))
Heap_insert(h, m, k, v) ==
    LET g == Heap_GrowIfLoaded(h, m)
    IN IF g.fault # "none" THEN g
       ELSE IF bucket_count(g.map) = 0
       THEN [fault |-> "div_by_zero", heap |-> g.heap, map |-> g.map]
       ELSE IF count(ViewMap(g.heap, g.map), k) > 0 THEN g
       ELSE Heap_PushPair(g.heap, g.map, Hash(k) % bucket_count(g.map),
                          Pair(k, v))

\* the scanning loop of operator[]: the first node from p on whose key is k
RECURSIVE FindNode(_, _, _)
FindNode(h, p, k) ==
    IF p = NULL \/ ~Live(h, p) THEN NULL
    ELSE IF h.nodes[p].data.first = k THEN p
    ELSE FindNode(h, h.nodes[p].next, k)

\* map[k] = v: operator[](k), then the assignment through the reference
Heap_subscript_assign(h, m, k, v) ==
    LET g == Heap_GrowIfLoaded(h, m)
    IN IF g.fault # "none" THEN g
       ELSE IF bucket_count(g.map) = 0
       THEN [fault |-> "div_by_zero", heap |-> g.heap, map |-> g.map]
       ELSE LET ndx == Hash(k) % bucket_count(g.map)
                l == g.heap.bufs[g.map.A._data][ndx + 1]
                r == IF l.head = NULL \/ FindNode(g.heap, l.head, k) = NULL
                     THEN Heap_PushPair(g.heap, g.map, ndx,
                                        Pair(k, DefaultValue))
                     ELSE g
                node == FindNode(r.heap,
                                 r.heap.bufs[r.map.A._data][ndx + 1].head, k)
            IN [fault |-> "none",
                heap |-> [r.heap EXCEPT !.nodes[node].data.second = v],
                map |-> r.map]

\* UnorderedMap(const UnorderedMap&) = default: member by member
Heap_copy_construct(h, other) ==
    LET c == Heap_Vector_copy(h, other.A)
    IN [fault |-> c.fault, heap |-> c.heap,
        map |-> [A |-> c.vec, currentSize |-> other.currentSize,
                 _max_load_factor |-> other._max_load_factor]]

\* m = other, operator=(const UnorderedMap&): clear() when m is not empty,
\* which sets A.currentSize to 0, then A = other.A and the two counters of
\* other; with same, other is m
Heap_copy_assign(h, m, other, same) ==
    LET m1 == IF m.currentSize # 0 THEN [m EXCEPT !.A.currentSize = 0] ELSE m
        o1 == IF same THEN m1 ELSE other
        a == Heap_Vector_assign(h, m1.A, o1.A, same)
    IN [fault |-> a.fault, heap |-> a.heap,
        map |-> [A |-> a.vec, currentSize |-> o1.currentSize,
                 _max_load_factor |-> o1._max_load_factor]]

\* The numbers of the nodes and arrays carry no meaning beyond identity. After
\* each call on the maps the live ones are renumbered in the order in which
\* they are met from map 1, then map 2 (bucket by bucket, each chain from its
\* head), then by their old number if no map reaches them, so that two heaps
\* that differ in the numbers only are one state. A pointer to a deleted
\* object is renumbered to the number after the last live one.

\* the live nodes from p on, in chain order
RECURSIVE ChainNodes(_, _, _)
ChainNodes(h, p, fuel) ==
    IF p = NULL \/ ~Live(h, p) \/ fuel = 0 THEN <<>>
    ELSE <<p>> \o ChainNodes(h, h.nodes[p].next, fuel - 1)

\* the live nodes of the lists i .. of array b
RECURSIVE SlotNodes(_, _, _)
SlotNodes(h, b, i) ==
    IF i > Len(h.bufs[b]) THEN <<>>
    ELSE ChainNodes(h, h.bufs[b][i].head, h.count) \o SlotNodes(h, b, i + 1)

\* the live nodes a map reaches
MapNodes(h, m) ==
    IF m.A._data \in DOMAIN h.bufs THEN SlotNodes(h, m.A._data, 1) ELSE <<>>

\* a sequence without its repetitions
RECURSIVE Dedup(_)
Dedup(seq) ==
    IF seq = <<>> THEN <<>>
    ELSE LET front == Dedup(SubSeq(seq, 1, Len(seq) - 1))
             x == seq[Len(seq)]
         IN IF \E i \in 1 .. Len(front) : front[i] = x THEN front
            ELSE Append(front, x)

\* a set of numbers in increasing order
RECURSIVE Ascending(_)
Ascending(S) ==
    IF S = {} THEN <<>>
    ELSE LET x == CHOOSE x \in S : \A y \in S : x <= y
         IN <<x>> \o Ascending(S \ {x})

\* the place of x in a sequence, one past its end when x is not in it
PlaceIn(seq, x) ==
    IF x = NULL THEN NULL
    ELSE IF \E i \in 1 .. Len(seq) : seq[i] = x
    THEN CHOOSE i \in 1 .. Len(seq) : seq[i] = x
    ELSE Len(seq) + 1

Renumbered(h, cs) ==
    LET met == Dedup(MapNodes(h, cs[1]) \o MapNodes(h, cs[2]))
        nodes == met \o Ascending(DOMAIN h.nodes
                                    \ {met[i] : i \in 1 .. Len(met)})
        held == Dedup(SelectSeq(<<cs[1].A._data, cs[2].A._data>>,
                                LAMBDA b : b \in DOMAIN h.bufs))
        arrays == held \o Ascending(DOMAIN h.bufs
                                      \ {held[i] : i \in 1 .. Len(held)})
    IN [heap |->
           [nodes |-> [i \in 1 .. Len(nodes) |->
                          [data |-> h.nodes[nodes[i]].data,
                           next |-> PlaceIn(nodes, h.nodes[nodes[i]].next)]],
            count |-> Len(nodes),
            bufs |-> [j \in 1 .. Len(arrays) |->
                         [i \in 1 .. Len(h.bufs[arrays[j]]) |->
                             [head |-> PlaceIn(nodes,
                                               h.bufs[arrays[j]][i].head),
                              _size |-> h.bufs[arrays[j]][i]._size]]],
            bcount |-> Len(arrays)],
        copies |-> [m \in DOMAIN cs |->
                       [cs[m] EXCEPT !.A._data = PlaceIn(arrays, @)]]]

\* ------------------------------------------------------------- state

VARIABLES
    map,        \* the UnorderedMap<int, int> under test
    ret,        \* the last call and what it returned
    fault,      \* "none", or the undefined behaviour the last call ran into
    inserted,   \* for each key given to the map so far, the value first given
    vec,        \* the Vector<int> under test
    pushes,     \* the size vec was constructed with, the number of push_back
                \* calls since, and whether every call so far was a push_back
    heap,       \* the nodes allocated and not deleted, and how many were made
    lists,      \* the ForwardList<int> objects under test, each with alive:
                \* constructed and not yet destroyed
    copies      \* two maps on the heap, a source and its copy, each with alive

vars == <<map, ret, fault, inserted, vec, pushes, heap, lists, copies>>

\* the state of the lists and of the maps on the heap
heapvars == <<heap, lists, copies>>

\* the state of the Vector<int>
vecvars == <<vec, pushes>>

\* the state of the map
mapvars == <<map, inserted>>

\* the list objects
ListIds == 1 .. 2

\* the maps on the heap: 1 is constructed first, 2 as a copy of it
MapIds == 1 .. 2

\* a map on the heap that is not constructed
NoMap == [A |-> [_data |-> NULL, currentSize |-> 0, currentCapacity |-> 0],
          currentSize |-> 0, _max_load_factor |-> <<1, 1>>, alive |-> FALSE]

NoCopies == [m \in MapIds |-> NoMap]

\* no list constructed
NoLists == [l \in ListIds |-> [head |-> NULL, _size |-> 0, alive |-> FALSE]]

NoPushes == [start |-> 0, n |-> 0, only |-> TRUE]

\* some call other than push_back was made: the calls are no longer counted
Mixed == [start |-> 0, n |-> 0, only |-> FALSE]

NoKeys == [k \in {} |-> 0]

\* the value first given with key k is kept
Remember(k, v) ==
    IF k \in DOMAIN inserted THEN inserted
    ELSE [x \in DOMAIN inserted \cup {k} |-> IF x = k THEN v ELSE inserted[x]]

\* UnorderedMap<int, int> map(n)
Init ==
    \E n \in Sizes :
        /\ map = UnorderedMap(n)
        /\ ret = [op |-> "construct", n |-> n]
        /\ fault = "none"
        /\ inserted = NoKeys
        /\ vec = NullVector
        /\ pushes = NoPushes
        /\ heap = EmptyHeap
        /\ lists = NoLists
        /\ copies = NoCopies

\* map.insert(pair(k, v))
Insert(k, v) ==
    /\ fault = "none"
    /\ UNCHANGED <<vecvars, heapvars>>
    /\ map.currentSize < MaxSize \/ HasKey(map, k)
    /\ LET r == insert(map, k, v)
       IN /\ fault' = r.fault
          /\ map' = r.map
          /\ IF r.fault = "none"
             THEN /\ ret' = [op |-> "insert", key |-> k, val |-> v,
                             first |-> r.first, second |-> r.second]
                  /\ inserted' = Remember(k, v)
             ELSE /\ ret' = [op |-> "insert", key |-> k, val |-> v]
                  /\ UNCHANGED inserted

\* map[k]
Subscript(k) ==
    /\ fault = "none"
    /\ UNCHANGED <<vecvars, heapvars>>
    /\ map.currentSize < MaxSize \/ HasKey(map, k)
    /\ LET r == subscript(map, k)
       IN /\ fault' = r.fault
          /\ map' = r.map
          /\ IF r.fault = "none"
             THEN /\ ret' = [op |-> "subscript", key |-> k, ref |-> r.ref]
                  /\ inserted' = Remember(k, DefaultValue)
             ELSE /\ ret' = [op |-> "subscript", key |-> k]
                  /\ UNCHANGED inserted

\* map.find(k) on a non-const map
Find(k) ==
    /\ fault = "none"
    /\ UNCHANGED <<vecvars, heapvars>>
    /\ LET r == find(map, k)
       IN /\ fault' = r.fault
          /\ ret' = IF r.fault = "none"
                    THEN [op |-> "find", key |-> k, pos |-> r.pos]
                    ELSE [op |-> "find", key |-> k]
    /\ UNCHANGED <<map, inserted>>

\* map.find(k) through a const reference
FindConst(k) ==
    /\ fault = "none"
    /\ UNCHANGED <<vecvars, heapvars>>
    /\ IF bucket_count(map) = 0
       THEN /\ fault' = "div_by_zero"
            /\ ret' = [op |-> "find_const", key |-> k]
       ELSE /\ fault' = "none"
            /\ ret' = [op |-> "find_const", key |-> k,
                       pos |-> find_const(map, k)]
    /\ UNCHANGED <<map, inserted>>

\* map.rehash(n)
Rehash(n) ==
    /\ fault = "none"
    /\ UNCHANGED <<vecvars, heapvars>>
    /\ map' = rehash(map, n)
    /\ ret' = [op |-> "rehash", n |-> n]
    /\ UNCHANGED <<fault, inserted>>

\* map.reserve(n)
Reserve(n) ==
    /\ fault = "none"
    /\ UNCHANGED <<vecvars, heapvars>>
    /\ map' = reserve(map, n)
    /\ ret' = [op |-> "reserve", n |-> n]
    /\ UNCHANGED <<fault, inserted>>

\* map.max_load_factor(ml)
SetMaxLoadFactor(ml) ==
    /\ fault = "none"
    /\ UNCHANGED <<vecvars, heapvars>>
    /\ map' = set_max_load_factor(map, ml)
    /\ ret' = [op |-> "max_load_factor", ml |-> ml]
    /\ UNCHANGED <<fault, inserted>>

\* auto it = map.begin(), the start of
\* for(it = map.begin(); it != map.end(); ++it) visit(*it)
IterBegin ==
    /\ fault = "none"
    /\ UNCHANGED <<vecvars, heapvars>>
    /\ LET r == begin(map)
       IN /\ fault' = r.fault
          /\ ret' = IF r.fault = "none"
                    THEN [op |-> "begin", pos |-> r.pos, visited |-> <<>>]
                    ELSE [op |-> "begin"]
    /\ UNCHANGED <<map, inserted>>

\* one turn of that loop: it != map.end() held, *it is read, then ++it
IterNext ==
    /\ fault = "none"
    /\ UNCHANGED <<vecvars, heapvars>>
    /\ ret.op \in {"begin", "++"}
    /\ ret.pos # end(map)
    /\ IF ret.pos.pos = NULL
       THEN /\ fault' = "null_deref"
            /\ ret' = [op |-> "*"]
       ELSE \E g \in {NULL, 1} :
              LET r == Increment(map, ret.pos, g)
              IN /\ fault' = "none"
                 /\ ret' = [op |-> "++", pos |-> r.pos, oob |-> r.oob,
                            visited |-> Append(ret.visited,
                                               Deref(map, ret.pos))]
    /\ UNCHANGED <<map, inserted>>

\* map.clear()
Clear ==
    /\ fault = "none"
    /\ UNCHANGED <<vecvars, heapvars>>
    /\ map' = clear(map)
    /\ ret' = [op |-> "clear"]
    /\ inserted' = NoKeys
    /\ UNCHANGED fault

\* map = other, other a second map
CopyAssign(j, v) ==
    /\ fault = "none"
    /\ UNCHANGED <<vecvars, heapvars>>
    /\ map' = copy_assign(map, SourceMap(j, v))
    /\ ret' = [op |-> "copy_assign", other |-> SourceMap(j, v)]
    /\ inserted' = [k \in 0 .. j - 1 |-> v]
    /\ UNCHANGED fault

\* map = map
CopyAssignSelf ==
    /\ fault = "none"
    /\ UNCHANGED <<vecvars, heapvars>>
    /\ map' = copy_assign_self(map)
    /\ ret' = [op |-> "copy_assign_self"]
    /\ UNCHANGED <<fault, inserted>>

\* map = std::move(other), other a second map
MoveAssign(j, v) ==
    /\ fault = "none"
    /\ UNCHANGED <<vecvars, heapvars>>
    /\ map' = move_assign(map, SourceMap(j, v))
    /\ ret' = [op |-> "move_assign",
               other |-> moved_from(SourceMap(j, v))]
    /\ inserted' = [k \in 0 .. j - 1 |-> v]
    /\ UNCHANGED fault

\* UnorderedMap dest(std::move(map)): map is left as the moved-from source
MoveFrom ==
    /\ fault = "none"
    /\ UNCHANGED <<vecvars, heapvars>>
    /\ map' = moved_from(map)
    /\ ret' = [op |-> "move_construct", dest |-> move_construct(map)]
    /\ inserted' = NoKeys
    /\ UNCHANGED fault

\* the calls on one map that the map's own growth and lookup consist of
Next ==
    \/ \E k \in Keys, v \in Vals : Insert(k, v)
    \/ \E k \in Keys : Subscript(k)
    \/ \E k \in Keys : Find(k)
    \/ \E k \in Keys : FindConst(k)
    \/ \E n \in Sizes : Rehash(n)
    \/ \E n \in Sizes : Reserve(n)
    \/ \E ml \in LoadFactors : SetMaxLoadFactor(ml)
    \/ IterBegin
    \/ IterNext

Spec == Init /\ [][Next]_vars

\* the same, with clear, assignment and move as well
NextAll ==
    \/ Next
    \/ Clear
    \/ \E j \in 0 .. MaxKey + 1, v \in Vals : CopyAssign(j, v)
    \/ CopyAssignSelf
    \/ \E j \in 0 .. MaxKey + 1, v \in Vals : MoveAssign(j, v)
    \/ MoveFrom

SpecAll == Init /\ [][NextAll]_vars

\* the calls of Next and clear: no assignment, no move
NextClear ==
    \/ Next
    \/ Clear

SpecClear == Init /\ [][NextClear]_vars

\* ------------------------------------------------------------- Vector<int> calls

\* Vector<int> vec; or Vector<int> vec(n, x);
InitVec ==
    /\ map = UnorderedMap(0)
    /\ inserted = NoKeys
    /\ heap = EmptyHeap
    /\ lists = NoLists
    /\ copies = NoCopies
    /\ fault = "none"
    /\ \E n \in 0 .. MaxLen, x \in Elems :
          /\ n = 0 => x = 1
          /\ vec = Vector_int(n, x)
          /\ ret = [op |-> "construct", n |-> n]
          /\ pushes = [start |-> n, n |-> 0, only |-> TRUE]

\* vec.at(index), through a reference that may be const
At(index) ==
    /\ fault = "none"
    /\ LET r == at(vec, index)
       IN /\ fault' = r.fault
          /\ ret' = IF r.fault # "none" THEN [op |-> "at", index |-> index]
                    ELSE IF r.threw
                    THEN [op |-> "at", index |-> index, threw |-> TRUE]
                    ELSE [op |-> "at", index |-> index, threw |-> FALSE,
                          val |-> r.val]
    /\ UNCHANGED <<vecvars, mapvars, heapvars>>

\* vec.push_back(x); ret keeps the elements the Vector held before the call
PushBack(x) ==
    /\ fault = "none"
    /\ vec.currentSize < MaxLen
    /\ vec' = push_back(vec, x)
    /\ ret' = [op |-> "push_back", value |-> x,
               before |-> SubSeq(vec._data, 1, vec.currentSize)]
    /\ pushes' = IF pushes.only THEN [pushes EXCEPT !.n = @ + 1] ELSE Mixed
    /\ UNCHANGED <<fault, mapvars, heapvars>>

\* vec.pop_back(); ret keeps whether the call before it was a push_back, and
\* the elements the Vector held before that push_back
PopBack ==
    /\ fault = "none"
    /\ vec' = pop_back(vec)
    /\ ret' = IF ret.op = "push_back"
              THEN [op |-> "pop_back", pushed |-> TRUE, before |-> ret.before]
              ELSE [op |-> "pop_back", pushed |-> FALSE]
    /\ pushes' = Mixed
    /\ UNCHANGED <<fault, mapvars, heapvars>>

\* vec.insert(vec.begin() + i, x)
VecInsert(i, x) ==
    /\ fault = "none"
    /\ vec.currentSize < MaxLen
    /\ i <= vec.currentSize
    /\ \E overrun \in BOOLEAN :
          LET r == Vec_insert(vec, i, x, overrun)
          IN /\ fault' = r.fault
             /\ vec' = r.vec
             /\ ret' = IF r.fault = "none"
                       THEN [op |-> "insert", i |-> i, value |-> x,
                             pos |-> r.pos]
                       ELSE [op |-> "insert", i |-> i, value |-> x]
    /\ pushes' = Mixed
    /\ UNCHANGED <<mapvars, heapvars>>

\* vec.erase(vec.begin() + i), i the offset of an element
VecErase(i) ==
    /\ fault = "none"
    /\ i < vec.currentSize
    /\ vec' = Vec_erase(vec, i).vec
    /\ ret' = [op |-> "erase", i |-> i, pos |-> Vec_erase(vec, i).pos]
    /\ pushes' = Mixed
    /\ UNCHANGED <<fault, mapvars, heapvars>>

\* vec.resize(cnt, x)
Resize(cnt, x) ==
    /\ fault = "none"
    /\ vec' = resize(vec, cnt, x)
    /\ ret' = [op |-> "resize", cnt |-> cnt, value |-> x]
    /\ pushes' = Mixed
    /\ UNCHANGED <<fault, mapvars, heapvars>>

\* vec.reserve(cap)
VecReserve(cap) ==
    /\ fault = "none"
    /\ vec' = Vec_reserve(vec, cap)
    /\ ret' = [op |-> "reserve", cap |-> cap]
    /\ pushes' = Mixed
    /\ UNCHANGED <<fault, mapvars, heapvars>>

\* vec.shrink_to_fit()
ShrinkToFit ==
    /\ fault = "none"
    /\ vec' = shrink_to_fit(vec)
    /\ ret' = [op |-> "shrink_to_fit"]
    /\ pushes' = Mixed
    /\ UNCHANGED <<fault, mapvars, heapvars>>

\* vec.clear()
VecClear ==
    /\ fault = "none"
    /\ vec' = Vec_clear(vec)
    /\ ret' = [op |-> "clear"]
    /\ pushes' = Mixed
    /\ UNCHANGED <<fault, mapvars, heapvars>>

\* vec = other, other the Vector<int>(n, x), or vec itself with same
VecCopyAssign(n, x, same) ==
    /\ fault = "none"
    /\ vec' = IF same THEN Vec_copy_assign_self(vec)
              ELSE Vec_copy_assign(vec, Vector_int(n, x))
    /\ ret' = [op |-> "copy_assign", same |-> same]
    /\ pushes' = Mixed
    /\ UNCHANGED <<fault, mapvars, heapvars>>

\* vec = std::move(other), other the Vector<int>(n, x), or vec itself with same
VecMoveAssign(n, x, same) ==
    /\ fault = "none"
    /\ vec' = IF same THEN Vec_move_assign_self(vec)
              ELSE Vec_move_assign(vec, Vector_int(n, x))
    /\ ret' = [op |-> "move_assign", same |-> same]
    /\ pushes' = Mixed
    /\ UNCHANGED <<fault, mapvars, heapvars>>

\* Vector<int> w(std::move(vec)): vec is what the move constructor leaves of
\* its source
VecMoveFrom ==
    /\ fault = "none"
    /\ vec' = Moved_int
    /\ ret' = [op |-> "move_construct", taken |-> vec]
    /\ pushes' = Mixed
    /\ UNCHANGED <<fault, mapvars, heapvars>>

\* the calls on one Vector<int>
NextVec ==
    \/ \E index \in 0 .. MaxLen : At(index)
    \/ \E x \in Elems : PushBack(x)
    \/ PopBack
    \/ \E i \in 0 .. MaxLen, x \in Elems : VecInsert(i, x)
    \/ \E i \in 0 .. MaxLen : VecErase(i)
    \/ \E cnt \in 0 .. MaxLen, x \in Elems : Resize(cnt, x)
    \/ \E cap \in 0 .. MaxLen : VecReserve(cap)
    \/ ShrinkToFit
    \/ VecClear
    \/ \E n \in 0 .. MaxLen, x \in Elems : VecCopyAssign(n, x, FALSE)
    \/ VecCopyAssign(0, 1, TRUE)
    \/ \E n \in 0 .. MaxLen, x \in Elems : VecMoveAssign(n, x, FALSE)
    \/ VecMoveAssign(0, 1, TRUE)
    \/ VecMoveFrom

SpecVec == InitVec /\ [][NextVec]_vars

\* ------------------------------------------------------------- ForwardList calls

\* ForwardList<int> l1, l2;
InitList ==
    /\ map = UnorderedMap(0)
    /\ inserted = NoKeys
    /\ vec = NullVector
    /\ pushes = NoPushes
    /\ fault = "none"
    /\ heap = EmptyHeap
    /\ lists = [l \in ListIds |-> [head |-> NULL, _size |-> 0, alive |-> TRUE]]
    /\ copies = NoCopies
    /\ ret = [op |-> "construct"]

\* the outcome r of a call on list l
ListCall(l, r, call) ==
    /\ fault' = r.fault
    /\ heap' = r.heap
    /\ lists' = [lists EXCEPT ![l] = [head |-> r.list.head,
                                      _size |-> r.list._size,
                                      alive |-> TRUE]]
    /\ ret' = call
    /\ UNCHANGED <<mapvars, vecvars, copies>>

\* a copy of list r is made while fewer than MaxAlloc nodes have been made, or
\* when it takes none; the nodes it makes may go beyond MaxAlloc
CopyFits(r) == heap.count < MaxAlloc \/ lists[r]._size = 0

\* l.push_front(x); ret keeps the head pointer, the _size and the elements
\* the list had before the call
PushFront(l, x) ==
    /\ fault = "none"
    /\ lists[l].alive
    /\ heap.count < MaxAlloc
    /\ ListCall(l, push_front(heap, lists[l], x),
                [op |-> "push_front", list |-> l, value |-> x,
                 before |-> [head |-> lists[l].head,
                             _size |-> lists[l]._size,
                             data |-> Contents(heap, lists[l])]])

\* l.pop_front(), l not empty; ret keeps whether the call before it was a
\* push_front on l, and what the list was before that push_front
PopFront(l) ==
    /\ fault = "none"
    /\ lists[l].alive
    /\ lists[l].head # NULL
    /\ ListCall(l, pop_front(heap, lists[l]),
                IF ret.op = "push_front" /\ ret.list = l
                THEN [op |-> "pop_front", list |-> l, pushed |-> TRUE,
                      before |-> ret.before]
                ELSE [op |-> "pop_front", list |-> l, pushed |-> FALSE])

\* l.remove(x)
Remove(l, x) ==
    /\ fault = "none"
    /\ lists[l].alive
    /\ ListCall(l, remove(heap, lists[l], x),
                [op |-> "remove", list |-> l, value |-> x])

\* l.clear()
ListClear(l) ==
    /\ fault = "none"
    /\ lists[l].alive
    /\ ListCall(l, List_clear(heap, lists[l]), [op |-> "clear", list |-> l])

\* l = r
ListCopyAssign(l, r) ==
    /\ fault = "none"
    /\ lists[l].alive
    /\ lists[r].alive
    /\ CopyFits(r)
    /\ ListCall(l, List_copy_assign(heap, lists[l], lists[r], l = r),
                [op |-> "copy_assign", list |-> l, from |-> r])

\* l = std::move(r)
ListMoveAssign(l, r) ==
    /\ fault = "none"
    /\ lists[l].alive
    /\ lists[r].alive
    /\ l # r
    /\ ListCall(l, [fault |-> "none", heap |-> heap,
                    list |-> List_move(lists[r])],
                [op |-> "move_assign", list |-> l, from |-> r])

\* the end of the lifetime of l: ~ForwardList()
ListDestroy(l) ==
    /\ fault = "none"
    /\ lists[l].alive
    /\ LET r == List_destroy(heap, lists[l])
       IN /\ fault' = r.fault
          /\ heap' = r.heap
          /\ lists' = [lists EXCEPT ![l] = [head |-> NULL, _size |-> 0,
                                            alive |-> FALSE]]
    /\ ret' = [op |-> "destroy", list |-> l]
    /\ UNCHANGED <<mapvars, vecvars, copies>>

\* ForwardList<int> l; in place of a destroyed list
ListConstruct(l) ==
    /\ fault = "none"
    /\ ~lists[l].alive
    /\ ListCall(l, [fault |-> "none", heap |-> heap, list |-> NewList],
                [op |-> "construct", list |-> l])

\* ForwardList<int> l(n, x); in place of a destroyed list
ListFillConstruct(l, n, x) ==
    /\ fault = "none"
    /\ ~lists[l].alive
    /\ heap.count + n <= MaxAlloc
    /\ ListCall(l, List_fill_construct(heap, n, x),
                [op |-> "fill_construct", list |-> l, n |-> n, value |-> x])

\* ForwardList<int> l(r); in place of a destroyed list
ListCopyConstruct(l, r) ==
    /\ fault = "none"
    /\ ~lists[l].alive
    /\ lists[r].alive
    /\ CopyFits(r)
    /\ ListCall(l, List_copy_construct(heap, lists[r]),
                [op |-> "copy_construct", list |-> l, from |-> r])

\* ForwardList<int> l(std::move(r)); in place of a destroyed list
ListMoveConstruct(l, r) ==
    /\ fault = "none"
    /\ ~lists[l].alive
    /\ lists[r].alive
    /\ ListCall(l, [fault |-> "none", heap |-> heap,
                    list |-> List_move(lists[r])],
                [op |-> "move_construct", list |-> l, from |-> r])

\* the calls on two ForwardList<int> objects
NextList ==
    \/ \E l \in ListIds, x \in Elems : PushFront(l, x)
    \/ \E l \in ListIds : PopFront(l)
    \/ \E l \in ListIds, x \in Elems : Remove(l, x)
    \/ \E l \in ListIds : ListClear(l)
    \/ \E l \in ListIds, r \in ListIds : ListCopyAssign(l, r)
    \/ \E l \in ListIds, r \in ListIds : ListMoveAssign(l, r)
    \/ \E l \in ListIds : ListDestroy(l)
    \/ \E l \in ListIds : ListConstruct(l)
    \/ \E l \in ListIds, n \in 1 .. MaxAlloc, x \in Elems :
          ListFillConstruct(l, n, x)
    \/ \E l \in ListIds, r \in ListIds : ListCopyConstruct(l, r)
    \/ \E l \in ListIds, r \in ListIds : ListMoveConstruct(l, r)

SpecList == InitList /\ [][NextList]_vars

\* ------------------------------------------------------------- calls on a map and its copy

\* UnorderedMap<int, int> m1; the default constructor is UnorderedMap(1)
InitCopy ==
    /\ map = UnorderedMap(0)
    /\ inserted = NoKeys
    /\ vec = NullVector
    /\ pushes = NoPushes
    /\ lists = NoLists
    /\ fault = "none"
    /\ heap = Heap_UnorderedMap(EmptyHeap, 1).heap
    /\ copies = [NoCopies EXCEPT ![1] =
                    [A |-> Heap_UnorderedMap(EmptyHeap, 1).map.A,
                     currentSize |-> 0,
                     _max_load_factor |-> <<1, 1>>,
                     alive |-> TRUE]]
    /\ ret = [op |-> "construct"]

\* the outcome r of a call that leaves map m as r.map
CopyCall(m, r, call) ==
    LET cs == [copies EXCEPT ![m] = [A |-> r.map.A,
                                     currentSize |-> r.map.currentSize,
                                     _max_load_factor |->
                                         r.map._max_load_factor,
                                     alive |-> TRUE]]
       n == Renumbered(r.heap, cs)
    IN /\ fault' = r.fault
       /\ heap' = n.heap
       /\ copies' = n.copies
       /\ ret' = call
       /\ UNCHANGED <<mapvars, vecvars, lists>>

\* the maps on the heap are given new keys while they hold fewer pairs
CopyRoom(m, k) ==
    \/ copies[m].currentSize + 1 < MaxSize
    \/ HasKey(ViewMap(heap, copies[m]), k)

\* m.insert(pair(k, v)) on either map
CopyInsert(m, k, v) ==
    /\ fault = "none"
    /\ copies[m].alive
    /\ CopyRoom(m, k)
    /\ CopyCall(m, Heap_insert(heap, copies[m], k, v),
                [op |-> "insert", map |-> m])

\* m[k] = v on either map
CopyWrite(m, k, v) ==
    /\ fault = "none"
    /\ copies[m].alive
    /\ CopyRoom(m, k)
    /\ CopyCall(m, Heap_subscript_assign(heap, copies[m], k, v),
                [op |-> "write", map |-> m])

\* UnorderedMap<int, int> m2(m1);
CopyConstruct ==
    /\ fault = "none"
    /\ ~copies[2].alive
    /\ CopyCall(2, Heap_copy_construct(heap, copies[1]),
                [op |-> "copy_construct", map |-> 2, from |-> 1])

\* d = s, s being d itself or the other map
CopyAssignMap(d, s) ==
    /\ fault = "none"
    /\ copies[d].alive
    /\ copies[s].alive
    /\ CopyCall(d, Heap_copy_assign(heap, copies[d], copies[s], d = s),
                [op |-> "copy_assign", map |-> d, from |-> s])

\* the calls on a map and its copy
NextCopy ==
    \/ \E m \in MapIds, k \in Keys : CopyInsert(m, k, MaxVal)
    \/ \E m \in MapIds, k \in Keys : CopyWrite(m, k, MaxVal + 1)
    \/ CopyConstruct
    \/ \E d \in MapIds, s \in MapIds : CopyAssignMap(d, s)

SpecCopy == InitCopy /\ [][NextCopy]_vars

\* ------------------------------------------------------------- nextPrime calls

\* a map constructed, nextPrime not yet called on its own
InitPrime ==
    /\ map = UnorderedMap(0)
    /\ inserted = NoKeys
    /\ vec = NullVector
    /\ pushes = NoPushes
    /\ heap = EmptyHeap
    /\ lists = NoLists
    /\ copies = NoCopies
    /\ fault = "none"
    /\ ret = [op |-> "construct"]

\* nextPrime(num)
NextPrimeCall(num) ==
    /\ ret' = [op |-> "nextPrime", num |-> num, result |-> nextPrime(num)]
    /\ UNCHANGED <<fault, mapvars, vecvars, heapvars>>

NextPrime == \E num \in 0 .. MaxNum : NextPrimeCall(num)

SpecPrime == InitPrime /\ [][NextPrime]_vars

\* ------------------------------------------------------------- properties

\* the last call was c and returned
Returned(c) == fault = "none" /\ ret.op = c

\* C1: every stored key occurs in exactly one node of the whole map, and that
\* node is in the chain of bucket hash(key) mod bucket_count(), in every state
\* reached by insert, operator[], rehash and reserve.
C1_KeyInOneNodeOfHomeBucket ==
    /\ bucket_count(map) >= 1
    /\ \A i \in 1 .. Len(Stored(map)) :
          Occurrences(map, Stored(map)[i].first) = 1
    /\ \A b \in 0 .. bucket_count(map) - 1 :
          \A j \in 1 .. Len(Vec_at(map.A, b).head) :
              Hash(Vec_at(map.A, b).head[j].first) % bucket_count(map) = b

\* a rehash has just rebuilt a map in which one chain holds two keys
C1_Witness ==
    /\ Returned("rehash")
    /\ \E b \in 0 .. bucket_count(map) - 1 : Len(Vec_at(map.A, b).head) >= 2

\* C2: after inserts that trigger rehashes and after direct rehashes, find(k)
\* gives a position holding the value first inserted with k, for every key
\* inserted so far, and the map holds exactly one pair per such key with
\* size() counting them: a rehash neither drops nor duplicates a pair.
C2_InsertedFoundAcrossRehash ==
    /\ map.currentSize = Cardinality(DOMAIN inserted)
    /\ Len(Stored(map)) = Cardinality(DOMAIN inserted)
    /\ \A k \in DOMAIN inserted :
          /\ find_const(map, k) # end(map)
          /\ Deref(map, find_const(map, k)) = Pair(k, inserted[k])
          /\ find(map, k).fault = "none"
          /\ find(map, k).pos = find_const(map, k)

\* the insert of a third key has just rehashed the map
C2_Witness ==
    /\ Returned("insert")
    /\ ret.second
    /\ map.currentSize = 3
    /\ bucket_count(map) >= 5

\* C3: after every insert and every operator[] call,
\* load_factor() <= max_load_factor().
C3_LoadFactorWithinMax ==
    (Returned("insert") \/ Returned("subscript")) => LoadFactorLE(map)

\* C4: insert of a pair whose key is stored creates no pair, leaves size() and
\* the stored value unchanged, and returns inserted = false with a position
\* that refers to the existing entry.
C4_InsertExistingKeepsValue ==
    [][(fault = "none" /\ ret'.op = "insert" /\ HasKey(map, ret'.key)) =>
            /\ fault' = "none"
            /\ ret'.second = FALSE
            /\ map'.currentSize = map.currentSize
            /\ Len(Stored(map')) = Len(Stored(map))
            /\ PairSet(map') = PairSet(map)
            /\ ret'.first.pos # NULL
            /\ ret'.first.bucket < bucket_count(map')
            /\ Deref(map', ret'.first)
                   = Pair(ret'.key, ValueOf(map, ret'.key))]_vars

\* insert was given a stored key with a value other than the stored one
C4_Witness ==
    /\ Returned("insert")
    /\ ret.second = FALSE
    /\ ValueOf(map, ret.key) # ret.val

\* C5: insert of a pair whose key is not stored pushes it at the front of its
\* bucket, increments size() and returns inserted = true with a position that
\* refers to the new pair.
C5_InsertNewReturnsItsPosition ==
    [][(fault = "none" /\ ret'.op = "insert" /\ ~HasKey(map, ret'.key)) =>
            /\ fault' = "none"
            /\ ret'.second = TRUE
            /\ map'.currentSize = map.currentSize + 1
            /\ Head(HomeChain(map', ret'.key)) = Pair(ret'.key, ret'.val)
            /\ ret'.first.pos # NULL
            /\ Deref(map', ret'.first) = Pair(ret'.key, ret'.val)]_vars

\* C6: find(k) of a key that is not stored returns end() (cend() for the const
\* overload); of a stored key, a position whose pair has key k.
C6_FindMissingIsEnd ==
    (Returned("find") \/ Returned("find_const")) =>
        IF HasKey(map, ret.key)
        THEN ret.pos.pos # NULL /\ Deref(map, ret.pos).first = ret.key
        ELSE ret.pos = end(map)

\* C7: find(k) on a map whose bucket for k is empty reads through no null
\* position and returns the end sentinel.
C7_FindInEmptyBucketIsSafe ==
    (ret.op = "find" /\ bucket_count(map) > 0 /\ HomeChain(map, ret.key) = <<>>)
        => (fault # "null_deref" /\ ret.pos = end(map))

\* C8: operator[](k) returns a reference to the value stored with k and changes
\* nothing when k is stored; when it is not, it creates one pair (k, default)
\* at the front of k's bucket, increments size() and returns a reference to
\* the new value.
C8_SubscriptGetOrCreate ==
    [][(fault = "none" /\ ret'.op = "subscript") =>
            /\ fault' = "none"
            /\ ret'.ref.pos # NULL
            /\ IF HasKey(map, ret'.key)
               THEN /\ map'.currentSize = map.currentSize
                    /\ Len(Stored(map')) = Len(Stored(map))
                    /\ PairSet(map') = PairSet(map)
                    /\ Deref(map', ret'.ref)
                           = Pair(ret'.key, ValueOf(map, ret'.key))
               ELSE /\ map'.currentSize = map.currentSize + 1
                    /\ Len(Stored(map')) = Len(Stored(map)) + 1
                    /\ PairSet(map')
                           = PairSet(map) \cup {Pair(ret'.key, DefaultValue)}
                    /\ Head(HomeChain(map', ret'.key))
                           = Pair(ret'.key, DefaultValue)
                    /\ Deref(map', ret'.ref)
                           = Pair(ret'.key, DefaultValue)]_vars

\* the elements of a sequence, counted
Count(seq, x) == Cardinality({i \in 1 .. Len(seq) : seq[i] = x})

\* C9: from begin(), ++ until end() reads only positions that hold a pair, and
\* has read the stored pairs, each once, when end() is reached.
C9_IterationVisitsStoredPairs ==
    /\ ret.op \in {"begin", "*"} => fault = "none"
    /\ (fault = "none" /\ ret.op \in {"begin", "++"} /\ ret.pos = end(map)) =>
          /\ Len(ret.visited) = Len(Stored(map))
          /\ \A i \in 1 .. Len(Stored(map)) :
                Count(ret.visited, Stored(map)[i]) = 1

\* C10: bucket_count() is at least 1 and prime after construction and any
\* sequence of insert, operator[], rehash, reserve, clear and assignment.
C10_BucketCountPrime ==
    bucket_count(map) >= 1 /\ IsPrime(bucket_count(map))

\* C11: size() equals the number of pairs over all chains in every state
\* reached by insert, operator[], rehash, reserve and clear; empty() holds
\* exactly when no pair is stored; after clear() size() is 0.
C11_SizeCountsStoredPairs ==
    /\ map.currentSize = Len(Stored(map))
    /\ empty(map) <=> Stored(map) = <<>>
    /\ Returned("clear") => map.currentSize = 0

\* the map holds exactly the pairs of the source it was assigned from
HoldsInserted(m) ==
    /\ m.currentSize = Cardinality(DOMAIN inserted)
    /\ Len(Stored(m)) = Cardinality(DOMAIN inserted)
    /\ PairSet(m) = {Pair(k, inserted[k]) : k \in DOMAIN inserted}

\* a map that was just constructed would be in this state: no pair, size() 0,
\* a prime number of buckets
LikeNew(m) ==
    /\ m.currentSize = 0
    /\ empty(m)
    /\ Stored(m) = <<>>
    /\ bucket_count(m) >= 1
    /\ IsPrime(bucket_count(m))
    /\ insert(m, 0, 1).fault = "none"

\* C12: move construction and move assignment give the destination the
\* source's former pairs and size, and leave the source empty: size() 0,
\* empty() true, the invariants hold for it and it can be used again.
C12_MoveLeavesSourceEmpty ==
    /\ Returned("move_construct") =>
          /\ Len(Stored(ret.dest)) = ret.dest.currentSize
          /\ LikeNew(map)
    /\ Returned("move_assign") =>
          /\ HoldsInserted(map)
          /\ LikeNew(ret.other)

\* C14: at(i) signals out_of_range exactly when i is not in [0, size()), for
\* every size including 0; for i in range it returns element i.
C14_AtThrowsIffOutOfRange ==
    ret.op = "at" =>
        /\ fault = "none"
        /\ ret.threw <=> ret.index >= vec.currentSize
        /\ ~ret.threw => ret.val = vec._data[ret.index + 1]

\* C15: while only push_back has been called, size() is the size the Vector
\* was constructed with plus the number of calls; after any sequence of
\* push_back, pop_back, insert, erase, resize, reserve, shrink_to_fit and
\* clear, capacity() >= size().
C15_SizeCountsPushesWithinCapacity ==
    /\ pushes.only => vec.currentSize = pushes.start + pushes.n
    /\ Vec_capacity(vec) >= Vec_size(vec)
    /\ Len(vec._data) = Vec_capacity(vec)

\* the third push_back on a default constructed Vector, after two growths
C15_Witness ==
    /\ Returned("push_back")
    /\ pushes = [start |-> 0, n |-> 3, only |-> TRUE]
    /\ Vec_capacity(vec) = 4

\* C16: push_back with size() == capacity() makes the capacity exactly
\* max(1, 2 * old capacity) and keeps every live element at its index; with
\* size() < capacity() the capacity is unchanged. The value is stored behind
\* the live elements either way.
C16_PushBackDoublesCapacity ==
    [][(fault = "none" /\ ret'.op = "push_back") =>
            /\ Vec_size(vec) = Vec_capacity(vec) =>
                  Vec_capacity(vec') = IF 2 * Vec_capacity(vec) >= 1
                                       THEN 2 * Vec_capacity(vec) ELSE 1
            /\ Vec_size(vec) < Vec_capacity(vec) =>
                  Vec_capacity(vec') = Vec_capacity(vec)
            /\ Vec_size(vec') = Vec_size(vec) + 1
            /\ \A i \in 0 .. Vec_size(vec) - 1 :
                  Vec_at(vec', i) = Vec_at(vec, i)
            /\ Vec_at(vec', Vec_size(vec)) = ret'.value]_vars

\* a push_back has just grown a full Vector of two distinct elements to four
\* slots
C16_Witness ==
    /\ Returned("push_back")
    /\ Vec_size(vec) = 3
    /\ Vec_capacity(vec) = 4
    /\ Vec_at(vec, 0) # Vec_at(vec, 1)

\* C17: insert(pos, v) with pos at index i, 0 <= i <= size(), gives
\* e[0..i), v, e[i..n) with size n + 1 and returns the position of index i, in
\* every capacity state: size() < capacity(), size() == capacity() and the
\* empty Vector.
C17_InsertAtPosition ==
    [][(fault = "none" /\ ret'.op = "insert") =>
            /\ fault' = "none"
            /\ Vec_size(vec') = Vec_size(vec) + 1
            /\ \A j \in 0 .. Vec_size(vec) :
                  Vec_at(vec', j) = IF j < ret'.i THEN Vec_at(vec, j)
                                    ELSE IF j = ret'.i THEN ret'.value
                                    ELSE Vec_at(vec, j - 1)
            /\ ret'.pos = ret'.i]_vars

\* C18: erase(pos) with pos at index i in [0, size()) gives e[0..i), e[i+1..n)
\* with size n - 1 and the capacity unchanged, and returns the position of
\* index i, which is end() when i was the last index.
C18_EraseAtPosition ==
    [][(fault = "none" /\ ret'.op = "erase") =>
            /\ fault' = "none"
            /\ Vec_size(vec') = Vec_size(vec) - 1
            /\ Vec_capacity(vec') = Vec_capacity(vec)
            /\ \A j \in 0 .. Vec_size(vec') - 1 :
                  Vec_at(vec', j) = IF j < ret'.i THEN Vec_at(vec, j)
                                    ELSE Vec_at(vec, j + 1)
            /\ ret'.pos = ret'.i
            /\ ret'.i = Vec_size(vec) - 1 => ret'.pos = Vec_size(vec')]_vars

\* the first of three elements was erased and the two that are left differ
C18_Witness ==
    /\ Returned("erase")
    /\ ret.i = 0
    /\ Vec_size(vec) = 2
    /\ Vec_at(vec, 0) # Vec_at(vec, 1)

\* a sequence without the elements equal to x
RECURSIVE Without(_, _)
Without(seq, x) ==
    IF seq = <<>> THEN <<>>
    ELSE IF Head(seq) = x THEN Without(Tail(seq), x)
    ELSE <<Head(seq)>> \o Without(Tail(seq), x)

\* C19: remove(v) on any list, empty, with v at the head, with v repeated or
\* absent, leaves no element equal to v, keeps the other elements in their
\* order and decreases size() by the number of nodes removed.
C19_RemoveDropsEveryMatch ==
    [][(fault = "none" /\ ret'.op = "remove") =>
            /\ fault' = "none"
            /\ Contents(heap', lists'[ret'.list])
                   = Without(Contents(heap, lists[ret'.list]), ret'.value)
            /\ lists'[ret'.list]._size + Cardinality(DOMAIN heap.nodes)
                   = lists[ret'.list]._size + Cardinality(DOMAIN heap'.nodes)
      ]_vars

\* C20: in every state reached by ForwardList operations, copy and move
\* construction and assignment included, each node is reachable from exactly
\* one list and no list holds a pointer to a deleted node, so that destroying
\* the lists deletes every node once: none twice, none never.
C20_EachNodeOwnedByOneList ==
    /\ fault # "use_after_free"
    /\ \A n \in DOMAIN heap.nodes :
          Cardinality({l \in ListIds :
                          lists[l].alive /\ n \in PointersOf(heap, lists[l])})
              = 1
    /\ \A l \in ListIds :
          lists[l].alive => PointersOf(heap, lists[l]) \subseteq DOMAIN heap.nodes

\* the arrays and the node pointers a map on the heap holds
MapArrays(m) == IF m.A._data = NULL THEN {} ELSE {m.A._data}

MapPointers(h, m) ==
    IF m.A._data \in DOMAIN h.bufs
    THEN UNION {PointersFrom(h, h.bufs[m.A._data][i].head, h.count) :
                    i \in 1 .. Len(h.bufs[m.A._data])}
    ELSE {}

\* the two maps hold no array and no node in common, and none that is deleted
Disjoint(h, cs) ==
    /\ MapArrays(cs[1]) \cap MapArrays(cs[2]) = {}
    /\ MapPointers(h, cs[1]) \cap MapPointers(h, cs[2]) = {}
    /\ \A m \in MapIds :
          /\ MapArrays(cs[m]) \subseteq DOMAIN h.bufs
          /\ MapPointers(h, cs[m]) \subseteq DOMAIN h.nodes

\* map d holds what map s holds: size(), bucket_count(), and for each key
\* the value
SameMapping(d, s) ==
    /\ d.currentSize = s.currentSize
    /\ bucket_count(d) = bucket_count(s)
    /\ Len(Stored(d)) = Len(Stored(s))
    /\ PairSet(d) = PairSet(s)
    /\ \A k \in Keys :
          HasKey(s, k) =>
              /\ find_const(d, k) # end(d)
              /\ Deref(d, find_const(d, k)) = Pair(k, ValueOf(s, k))

\* C13: copy construction and copy assignment give the copy the size(),
\* bucket_count() and key-to-value mapping of the source and leave the source
\* as it was; the two maps share no bucket array and no node; and a later
\* insert or operator[] write on one of them leaves the content of the other
\* unchanged.
C13_CopyIsDeep ==
    [][/\ fault' = "none"
       /\ (copies'[1].alive /\ copies'[2].alive) => Disjoint(heap', copies')
       /\ ret'.op \in {"copy_construct", "copy_assign"} =>
             /\ SameMapping(ViewMap(heap', copies'[ret'.map]),
                            ViewMap(heap, copies[ret'.from]))
             /\ ViewMap(heap', copies'[ret'.from])
                    = ViewMap(heap, copies[ret'.from])
       /\ ret'.op \in {"insert", "write"} =>
             \A o \in MapIds \ {ret'.map} :
                 ViewMap(heap', copies'[o]) = ViewMap(heap, copies[o])
      ]_vars

\* the live elements of a Vector, index 0 first
Vec_elements(v) == [i \in 1 .. Vec_size(v) |-> Vec_at(v, i - 1)]

\* C21: push_back(x) followed immediately by pop_back() leaves size() and the
\* sequence of live elements as they were before the push_back, whatever the
\* state of the Vector and whether or not the push_back grew the capacity.
C21_PushBackPopBackRestores ==
    (fault = "none" /\ ret.op = "pop_back" /\ ret.pushed) =>
        /\ Vec_size(vec) = Len(ret.before)
        /\ Vec_elements(vec) = ret.before

\* a pop_back has undone a push_back that grew a full Vector of two distinct
\* elements
C21_Witness ==
    /\ fault = "none"
    /\ ret.op = "pop_back"
    /\ ret.pushed
    /\ Len(ret.before) = 2
    /\ ret.before[1] # ret.before[2]
    /\ Vec_capacity(vec) = 4

\* C22: push_front(x) followed by pop_front() on the same list leaves the
\* chain as it was before the push_front: the same head node, the same
\* elements in the same order and the same size(), the empty list included.
C22_PushFrontPopFrontRestores ==
    (ret.op = "pop_front" /\ ret.pushed) =>
        /\ fault = "none"
        /\ lists[ret.list].head = ret.before.head
        /\ lists[ret.list]._size = ret.before._size
        /\ Contents(heap, lists[ret.list]) = ret.before.data

\* a pop_front has undone a push_front on a list of two distinct elements
C22_Witness ==
    /\ fault = "none"
    /\ ret.op = "pop_front"
    /\ ret.pushed
    /\ Len(ret.before.data) = 2
    /\ ret.before.data[1] # ret.before.data[2]
    /\ ret.before._size = 2

\* a pop_front has undone a push_front on an empty list
C22_WitnessEmpty ==
    /\ fault = "none"
    /\ ret.op = "pop_front"
    /\ ret.pushed
    /\ ret.before.head = NULL
    /\ lists[ret.list].head = NULL

\* C23: nextPrime(n) returns the smallest prime >= n, for every n from 0 to
\* MaxNum: the result is a prime, it is not below n, and no number from n up
\* to it is a prime.
C23_NextPrimeIsSmallestPrimeAtLeast ==
    ret.op = "nextPrime" =>
        /\ IsPrime(ret.result)
        /\ ret.result >= ret.num
        /\ \A p \in ret.num .. ret.result - 1 : ~IsPrime(p)

\* nextPrime(25) has returned 29, past the composites 25 to 28
C23_Witness ==
    /\ ret.op = "nextPrime"
    /\ ret.num = 25
    /\ ret.result = 29

\* C24: every rehash, whether insert or operator[] runs it because
\* load_factor() >= max_load_factor() or it is called through rehash(n) or
\* reserve(n), leaves a bucket array whose length is a prime strictly larger
\* than bucket_count() was before the call.
C24_RehashGrowsBucketCount ==
    [][(/\ fault = "none"
        /\ fault' = "none"
        /\ \/ ret'.op \in {"rehash", "reserve"}
           \/ ret'.op \in {"insert", "subscript"} /\ LoadFactorGE(map))
       => /\ IsPrime(bucket_count(map'))
          /\ bucket_count(map') > bucket_count(map)]_vars

\* C25: ++ on a position that refers to a stored pair reads no bucket at an
\* index outside [0, bucket_count()); when the advance leaves the last
\* bucket the position becomes end() without begin() being called on the
\* slot past the bucket array.
C25_AdvanceStaysInsideBucketArray ==
    (fault = "none" /\ ret.op = "++") =>
        /\ ~ret.oob
        /\ ret.pos.bucket <= bucket_count(map)

\* list l holds live nodes only, none of them a node of list r
OwnsItsNodes(l, r) ==
    /\ PointersOf(heap, lists[l]) \subseteq DOMAIN heap.nodes
    /\ l # r => PointersOf(heap, lists[l]) \cap PointersOf(heap, lists[r]) = {}

\* C26: copy construction and copy assignment from a source list give a list
\* with the size() of the source whose elements, from the head, are the
\* elements of the source in the same order, and leave the source unchanged.
C26_ListCopyKeepsOrder ==
    [][(/\ fault = "none"
        /\ ret'.op \in {"copy_construct", "copy_assign"}
        /\ OwnsItsNodes(ret'.from, ret'.list)
        /\ OwnsItsNodes(ret'.list, ret'.from))
       => /\ fault' = "none"
          /\ lists'[ret'.list]._size = lists[ret'.from]._size
          /\ Contents(heap', lists'[ret'.list])
                = Contents(heap, lists[ret'.from])
          /\ Contents(heap', lists'[ret'.from])
                = Contents(heap, lists[ret'.from])
          /\ lists'[ret'.from]._size = lists[ret'.from]._size]_vars

====
